---- MODULE Spec2Model ----
(***************************************************************************)
(* Greyhound.py: the daily tips bot in schedule mode.                      *)
(*                                                                         *)
(* The model follows one process: the scheduler loop of main(), a fire     *)
(* (generate_greyhound_tips, then send_tips_as_separate_messages), the     *)
(* retry orchestrator analyze_greyhound_racing_day_with_retry, one attempt *)
(* analyze_greyhound_racing_day with its two completion calls, and the     *)
(* webhook sends.  The clock is Sydney wall time in seconds since the      *)
(* Sydney midnight that opens day 0; every sleep of the code advances it   *)
(* by the seconds the code sleeps, an augmented call that runs into its    *)
(* timeout by the seconds of that timeout; a call that answers is taken to *)
(* answer at once.                                                         *)
(*                                                                         *)
(* A text is the record [kind, lead, core, trail, exc, ind]: what produced *)
(* it, its leading whitespace, the characters from its first to its last   *)
(* non-blank character, its trailing whitespace, whether it embeds str(e)  *)
(* of a raised exception, and whether it holds a no-data indicator.        *)
(* len(t) = lead + core + trail and len(t.strip()) = core.                 *)
(***************************************************************************)
EXTENDS Integers, Sequences, FiniteSets, TLC

VARIABLES
    now,              \* Sydney wall clock, seconds since midnight of day 0
    pc,               \* where the single task stands
    scheduler_status, \* main(): the in-memory status dictionary
    status_file,      \* scheduler_status.json on disk (<<>> when absent)
    poll,             \* <<now_sydney>> of the poll that started the running fire
    attempt,          \* analyze_greyhound_racing_day_with_retry: loop index
    aug,              \* outcome of the augmented call of the running attempt
    tips,             \* <<t>>: the text the orchestrator returned
    err,              \* <<e>>: the exception the fire raised
    \* History of the running call of the orchestrator:
    calls,            \* invocations of analyze_greyhound_racing_day
    sleeps,           \* retry_delay sleeps
    notifs,           \* send_fallback_webhook_message calls
    last,             \* how the latest attempt ended
    \* History of the running trigger window (forgotten by the first poll that
    \* reads a time outside the window):
    winPolls,         \* polls that read a time inside the window
    winFires,         \* fires started
    winRaised,        \* fires that raised
    winLastRaised,    \* the latest fire raised
    winMarked,        \* a poll found the day marked before any fire started
    winIdleAtNoon,    \* 12:00:00 fell inside a poll sleep, the day unmarked
    winSent,          \* what was delivered to WEBHOOK_URL: {[kind, exc]}
    \* One call of a function of the program, followed on its own:
    arg,              \* its argument
    res,              \* what it has produced so far
    stage             \* how far the call has got

\* The variables of the scheduled process, and those of a single call.
progVars == <<now, pc, scheduler_status, status_file, poll, attempt, aug, tips, err,
              calls, sleeps, notifs, last, winPolls, winFires, winRaised,
              winLastRaised, winMarked, winIdleAtNoon, winSent>>
callVars == <<arg, res, stage>>

vars == <<progVars, callVars>>

-----------------------------------------------------------------------------
(* Bounds of the model *)

\* Days 0 .. MaxDays - 1 are polled, the last one until its window has closed.
MaxDays == 2

(* Program constants *)

\* A loop that sleeps five minutes between polls.
PollSleepFiveMinutes == 5 * 60
\* An orchestrator that allows a fourth attempt.
MaxRetriesFour == 3 + 1

PollSleep     == 60     \* await asyncio.sleep(60)
RetryDelay    == 120    \* retry_delay
MaxRetries    == 3      \* max_retries
MinResultLen  == 100    \* len(...strip()) > 100
AugTimeout    == 600    \* aiohttp.ClientTimeout(total=600)
NoonHour      == 12     \* current_hour == 12
NoonLastMin   == 2      \* 0 <= current_minute <= 2
EmbedMax      == 4096   \* content[:4096]
DisclaimerGap == 2      \* the two newlines that open the disclaimer
DisclaimerLen == 98     \* the disclaimer line itself

SecondsPerDay == 24 * 60 * 60
HMS(h, m, s)  == (h * 60 + m) * 60 + s

\* None, and a present value, of an optional field.
None    == <<>>
Some(x) == <<x>>

-----------------------------------------------------------------------------
(* Sydney clock: now_sydney.strftime('%Y-%m-%d'), .time().hour, .minute *)

TodayStr(t)      == t \div SecondsPerDay
CurrentHour(t)   == (t % SecondsPerDay) \div (60 * 60)
CurrentMinute(t) == (t % (60 * 60)) \div 60
NoonOf(d)        == d * SecondsPerDay + HMS(NoonHour, 0, 0)
Horizon          == NoonOf(MaxDays - 1) + HMS(0, 10, 0)

\* A window one minute wider than the code's.
IsNoonTimeWide(t) ==
    /\ CurrentHour(t) = NoonHour
    /\ CurrentMinute(t) <= NoonLastMin + 1

\* is_noon_time = (current_hour == 12 and 0 <= current_minute <= 2)
IsNoonTime(t) ==
    /\ CurrentHour(t) = NoonHour
    /\ 0 <= CurrentMinute(t)
    /\ CurrentMinute(t) <= NoonLastMin

\* A scheduler that ignores the marker.
HasNotRunTodayAlways(status, t) == TRUE

\* has_not_run_today = scheduler_status.get('last_noon_run') != today_str
HasNotRunToday(status, t) == status.last_noon_run # Some(TodayStr(t))

-----------------------------------------------------------------------------
(* Texts *)

Text(k, l, c, r, x, i) ==
    [kind |-> k, lead |-> l, core |-> c, trail |-> r, exc |-> x, ind |-> i]

TextLen(t)  == t.lead + t.core + t.trail       \* len(t)
StripLen(t) == t.core                          \* len(t.strip())
Truthy(r)   == r # None /\ TextLen(r[1]) > 0    \* "if response:"

\* The shortest and the longest len(strftime("%A, %d %B %Y")), and the
\* shortest and the longest len(strftime('%B %d, %Y')).
LongDateLens  == {19, 28}
ShortDateLens == {12, 18}

\* What the completion service may answer: prose without selection marker,
\* section header, stake line or step marker (filter_diverse_selections,
\* validate_and_fix_selections and the step-marker strip return such a text
\* as it is): "", " ", "a", 100 and 101 characters, 101 characters holding
\* one of the no_data_indicators, and " " + 101 characters + " ".
\* A text without a non-blank character counts all its characters as lead.
ServiceTexts ==
    { Text("model", 0, 0, 0, FALSE, FALSE),
      Text("model", 1, 0, 0, FALSE, FALSE),
      Text("model", 0, 1, 0, FALSE, FALSE),
      Text("model", 0, MinResultLen, 0, FALSE, FALSE),
      Text("model", 0, MinResultLen + 1, 0, FALSE, FALSE),
      Text("model", 0, MinResultLen + 1, 0, FALSE, TRUE),
      Text("model", 1, MinResultLen + 1, 1, FALSE, FALSE) }

\* An exception: its class, len(str(e)) and whether str(e) holds
\* "'NoneType' object is not iterable".
Exc(ty, n, nti) == [type |-> ty, len |-> n, nti |-> nti]

\* Every class raised here derives from Exception (asyncio.TimeoutError too),
\* so "except Exception" catches it.
IsException(e) == e.type \in {"Exception", "TimeoutError", "ClientError", "TypeError", "OSError"}

-----------------------------------------------------------------------------
(* Completion client *)

AugOutcomes ==
    [type : {"parts"}, text : ServiceTexts]
      \cup { [type |-> "no_candidates"], [type |-> "http_error"],
             [type |-> "client_error"],  [type |-> "timeout"] }

FallbackOutcomes ==
    [type : {"parts"}, text : ServiceTexts] \cup { [type |-> "raise"] }

\* Seconds a completion call that answers may take; the augmented call is
\* cut at AugTimeout.
CallDurations == {0}

AugDurations(o) == IF o.type = "timeout" THEN {AugTimeout} ELSE CallDurations

\* "No valid response received from search grounding API"
NoValidResponse == Text("novalid", 0, 52, 0, FALSE, FALSE)

\* What the body of the try of call_gemini_with_search_grounding does: a
\* return value, or an exception raised inside it.
AugTry(o) ==
    CASE o.type = "parts"         -> [ret |-> Some(o.text)]
      [] o.type = "no_candidates" -> [ret |-> Some(NoValidResponse)]
      [] o.type = "http_error"    -> [ret |-> None]
      [] o.type = "client_error"  -> [raise |-> Exc("ClientError", 20, FALSE)]
      [] o.type = "timeout"       -> [raise |-> Exc("TimeoutError", 0, FALSE)]

\* call_gemini_with_search_grounding: the response, None after any exception.
CallGeminiWithSearchGrounding(o) ==
    LET r == AugTry(o) IN
    IF "raise" \in DOMAIN r
      THEN IF IsException(r.raise) THEN [ret |-> None] ELSE r
      ELSE r

\* call_gemini_fallback: the concatenated parts ("" when there are none),
\* None after any exception.
CallGeminiFallback(o) ==
    IF o.type = "parts" THEN Some(o.text) ELSE None

-----------------------------------------------------------------------------
(* analyze_greyhound_racing_day: what it returns *)

\* final_answer + disclaimer
AppendDisclaimer(t) ==
    IF t.core = 0
      THEN Text(t.kind, t.lead + t.trail + DisclaimerGap, DisclaimerLen, 0, t.exc, t.ind)
      ELSE Text(t.kind, t.lead, t.core + t.trail + DisclaimerGap + DisclaimerLen, 0,
                t.exc, t.ind)

\* The canned reports; dl is len(au_long).
NoDataText(dl)   == Text("nodata", 0, 1064 + 4 * dl + 2 * 10 + 10, 0, FALSE, FALSE)
TimeoutText(dl)  == Text("timeout", 0, 264 + dl, 0, FALSE, FALSE)
\* f"... Error generating greyhound tips for {au_long}: {str(e)}"
ErrorText(dl, e) == Text("error", 0, 39 + dl + 2 + e.len, 0, TRUE, FALSE)

\* An attempt that never takes the search-grounding answer.
AugAcceptedNever(x) == FALSE

\* The search-grounding answer x (a return value or a raised exception) is
\* taken when "response and len(response.strip()) > 100"; otherwise, and
\* after any exception ("except Exception as search_error"), the plain call
\* is made.
AugAccepted(x) ==
    /\ "ret" \in DOMAIN x
    /\ Truthy(x.ret)
    /\ StripLen(x.ret[1]) > MinResultLen

\* Lines 1053-1129: the line passes, the disclaimer, the no-data substitution.
PostProcess(t, dl) ==
    LET full == AppendDisclaimer(t) IN
    IF full.ind THEN NoDataText(dl) ELSE full

\* raise Exception("Both search grounding and fallback failed")
BothFailed == Exc("Exception", 41, FALSE)

\* The two handlers that close the function.
AnalyzeExcept(e, dl) ==
    IF e.type = "TimeoutError" THEN TimeoutText(dl) ELSE ErrorText(dl, e)

\* The function's result once the fallback call has answered with r.
AnalyzeAfterFallback(r, dl) ==
    IF Truthy(r) THEN PostProcess(r[1], dl) ELSE AnalyzeExcept(BothFailed, dl)

-----------------------------------------------------------------------------
(* analyze_greyhound_racing_day_with_retry: its tests and its texts *)

\* "if tips_result and len(tips_result.strip()) > 100"
ValidResult(t) == TextLen(t) > 0 /\ StripLen(t) > MinResultLen

LastAttempt(a) == a = MaxRetries - 1

\* f"... Technical error after {max_retries} attempts: {error_str}"
TechErrorText(e) == Text("techerr", 0, 37 + e.len, 0, TRUE, FALSE)

\* The "System Recovery Mode" body; fd is len(fallback_date).
RecoveryText(fd) == Text("recovery", 0, 912 + 2 * fd, 0, FALSE, FALSE)

\* Exceptions that escape analyze_greyhound_racing_day (raised before its try).
AttemptErrors == { Exc("TypeError", 33, TRUE), Exc("OSError", 12, FALSE) }

-----------------------------------------------------------------------------
(* Webhook sends *)

\* Embeds send_webhook_message sends for a content of n characters.
NumChunks(n) == IF n <= EmbedMax THEN 1 ELSE (n + EmbedMax - 1) \div EmbedMax

\* send_webhook_message(content): every webhook.send may raise, which ends
\* the function ("except Exception: print").  sent is the number of embeds
\* delivered, secs the one-second sleeps that followed the later ones.
WebhookOutcomes(content) ==
    { [sent |-> k, secs |-> IF k > 1 THEN k - 1 ELSE 0] :
        k \in 0 .. NumChunks(TextLen(content)) }

Entry(t) == [kind |-> t.kind, exc |-> t.exc]

\* The scheduler's own error note: f"... **Error:** {str(e)[:300]} ...";
\* fd is the length of its date.
SchedulerErrorText(e, fd) ==
    Text("schederr", 0, 122 + 14 + fd + (IF e.len < 300 THEN e.len ELSE 300), 0,
         TRUE, FALSE)

\* Exceptions that escape generate_greyhound_tips.
FireErrors == { Exc("OSError", 12, FALSE) }

-----------------------------------------------------------------------------
(* Scheduler status: load_scheduler_status, save_scheduler_status *)

DefaultStatus == [last_noon_run |-> None, last_run_timestamp |-> None]
StatusOf(d, t) == [last_noon_run |-> Some(d), last_run_timestamp |-> Some(t)]

LoadSchedulerStatus(file) == IF file # None THEN file[1] ELSE DefaultStatus

\* The file after save_scheduler_status(status): written, or left as it was
\* when the write fails ("except Exception: print").
SavedFiles(file, status) == {Some(status), file}

\* Instants at which the process may reach its first poll, on day 0.
StartTimes ==
    { HMS(0, 0, 30), HMS(11, 58, 0), HMS(12, 1, 30), HMS(12, 2, 59),
      HMS(12, 3, 0) }

\* Status files the process may find: none, yesterday's run, today's run.
InitFiles(t) ==
    {None, Some(StatusOf(0 - 1, NoonOf(0 - 1)))}
      \cup (IF t > NoonOf(0) THEN {Some(StatusOf(0, NoonOf(0)))} ELSE {})

\* No single call is followed.
NoCall == arg = None /\ res = None /\ stage = "-"

NoAttempt == [how |-> "-", both |-> FALSE, kind |-> "-", slen |-> 0]

\* The state at the first poll: the status has been loaded (line 1377) and
\* the startup note sent (lines 1382-1396); no fire is running.
Init ==
    /\ now \in StartTimes
    /\ pc = "poll"
    /\ status_file \in InitFiles(now)
    /\ scheduler_status = LoadSchedulerStatus(status_file)
    /\ poll = None
    /\ attempt = 0
    /\ aug = "-"
    /\ tips = None
    /\ err = None
    /\ calls = 0
    /\ sleeps = 0
    /\ notifs = 0
    /\ last = NoAttempt
    /\ winPolls = 0
    /\ winFires = 0
    /\ winRaised = 0
    /\ winLastRaised = FALSE
    /\ winMarked = FALSE
    /\ winIdleAtNoon = FALSE
    /\ winSent = {}
    /\ NoCall

-----------------------------------------------------------------------------
(* The scheduler loop of main() *)

\* 12:00:00 of some date falls inside the sleep that starts at t, and
\* last_noon_run is not that date.
SleepSpansNoon(t, status) ==
    LET d == TodayStr(t + PollSleep) IN
    /\ t < NoonOf(d)
    /\ NoonOf(d) <= t + PollSleep
    /\ status.last_noon_run # Some(d)

\* "await asyncio.sleep(60)" started at t: the next poll reads t + 60.
EndIteration(t, status, idle) ==
    /\ now' = t + PollSleep
    /\ winIdleAtNoon' = (idle \/ SleepSpansNoon(t, status))

ClearFire ==
    /\ poll' = None
    /\ attempt' = 0
    /\ aug' = "-"
    /\ tips' = None
    /\ err' = None
    /\ calls' = 0
    /\ sleeps' = 0
    /\ notifs' = 0
    /\ last' = NoAttempt

\* One iteration that does not fire: the test fails, the loop sleeps.
PollIdle ==
    /\ pc = "poll"
    /\ now < Horizon
    /\ ~(IsNoonTime(now) /\ HasNotRunToday(scheduler_status, now))
    /\ IF IsNoonTime(now)
         THEN /\ winPolls' = winPolls + 1
              /\ winMarked' = (winMarked \/ winFires = 0)
              /\ EndIteration(now, scheduler_status, winIdleAtNoon)
              /\ UNCHANGED <<winFires, winRaised, winLastRaised, winSent>>
         ELSE /\ winPolls' = 0
              /\ winFires' = 0
              /\ winRaised' = 0
              /\ winLastRaised' = FALSE
              /\ winMarked' = FALSE
              /\ winSent' = {}
              /\ EndIteration(now, scheduler_status, FALSE)
    /\ UNCHANGED <<pc, scheduler_status, status_file, poll, attempt, aug, tips, err,
                   calls, sleeps, notifs, last>>
    /\ UNCHANGED callVars

\* One iteration whose test holds: the fire starts.
PollFire ==
    /\ pc = "poll"
    /\ now < Horizon
    /\ IsNoonTime(now) /\ HasNotRunToday(scheduler_status, now)
    /\ poll' = Some(now)
    /\ winPolls' = winPolls + 1
    /\ winFires' = winFires + 1
    /\ winLastRaised' = FALSE
    /\ pc' = "generate"
    /\ UNCHANGED <<now, scheduler_status, status_file, attempt, aug, tips, err,
                   calls, sleeps, notifs, last, winRaised, winMarked,
                   winIdleAtNoon, winSent>>
    /\ UNCHANGED callVars

-----------------------------------------------------------------------------
(* generate_greyhound_tips *)

\* Lines 343-353: the date is resolved and the retry orchestrator is entered.
GenerateTips ==
    /\ pc = "generate"
    /\ pc' = "attempt"
    /\ attempt' = 0
    /\ calls' = 0
    /\ sleeps' = 0
    /\ notifs' = 0
    /\ last' = NoAttempt
    /\ UNCHANGED <<now, scheduler_status, status_file, poll, aug, tips, err,
                   winPolls, winFires, winRaised, winLastRaised, winMarked,
                   winIdleAtNoon, winSent>>
    /\ UNCHANGED callVars

\* An exception leaves generate_greyhound_tips, before the orchestrator is
\* entered, and reaches the scheduler's handler.
FireRaises ==
    /\ pc = "generate"
    /\ \E e \in FireErrors : err' = Some(e)
    /\ tips' = None
    /\ winRaised' = winRaised + 1
    /\ winLastRaised' = TRUE
    /\ pc' = "except"
    /\ UNCHANGED <<now, scheduler_status, status_file, poll, attempt, aug, calls,
                   sleeps, notifs, last, winPolls, winFires, winMarked,
                   winIdleAtNoon, winSent>>
    /\ UNCHANGED callVars

\* Lines 356-363: the day's record is saved and the text returned; the call
\* of the orchestrator is over.
GenerateReturns ==
    /\ pc = "save"
    /\ pc' = "deliver"
    /\ attempt' = 0
    /\ aug' = "-"
    /\ calls' = 0
    /\ sleeps' = 0
    /\ notifs' = 0
    /\ last' = NoAttempt
    /\ UNCHANGED <<now, scheduler_status, status_file, poll, tips, err, winPolls,
                   winFires, winRaised, winLastRaised, winMarked, winIdleAtNoon,
                   winSent>>
    /\ UNCHANGED callVars

-----------------------------------------------------------------------------
(* analyze_greyhound_racing_day_with_retry *)

\* What the run remembers of its latest attempt: how the orchestrator took
\* it ("raised", "short", "valid"), whether both completion calls failed,
\* and the kind and the stripped length of the text it returned.
Attempted(how, both, r) ==
    [how |-> how, both |-> both, kind |-> r.kind, slen |-> StripLen(r)]

AttemptRaised == [how |-> "raised", both |-> FALSE, kind |-> "-", slen |-> 0]

\* The orchestrator returns r at time t1, after n operator notifications
\* and s more backoff sleeps.
OrchExit(t1, r, n, s) ==
    /\ now' = t1
    /\ tips' = Some(r)
    /\ notifs' = notifs + n
    /\ sleeps' = sleeps + s
    /\ pc' = "save"
    /\ UNCHANGED attempt

\* The return that follows the loop.
OrchRecovery(t1, s) ==
    \E fd \in ShortDateLens : OrchExit(t1, RecoveryText(fd), 0, s)

\* "continue", with or without "await asyncio.sleep(retry_delay)" before
\* it; the loop ends when range(max_retries) is used up.
OrchRetry(t1, slept) ==
    LET s  == IF slept THEN 1 ELSE 0
        t2 == t1 + s * RetryDelay
    IN  IF attempt + 1 < MaxRetries
          THEN /\ now' = t2
               /\ sleeps' = sleeps + s
               /\ attempt' = attempt + 1
               /\ pc' = "attempt"
               /\ UNCHANGED <<tips, notifs>>
          ELSE OrchRecovery(t2, s)

\* Lines 431-440: the attempt returned r at time t1.
OrchOnResult(t1, r) ==
    IF ValidResult(r)
      THEN OrchExit(t1, r, 0, 0)
      ELSE IF LastAttempt(attempt) THEN OrchRecovery(t1, 0) ELSE OrchRetry(t1, FALSE)

\* Lines 442-472: the attempt raised e at time t1.
OrchOnException(t1, e) ==
    IF e.nti
      THEN IF LastAttempt(attempt) THEN OrchRecovery(t1, 0) ELSE OrchRetry(t1, TRUE)
      ELSE IF LastAttempt(attempt)
             THEN OrchExit(t1, TechErrorText(e), 1, 0)
             ELSE OrchRetry(t1, TRUE)

HowEnded(r) == IF ValidResult(r) THEN "valid" ELSE "short"

\* The attempt is entered; analyze_greyhound_racing_day builds its prompt and
\* awaits the augmented call.
AttemptCalls ==
    /\ pc = "attempt"
    /\ calls' = calls + 1
    /\ aug' = "-"
    /\ pc' = "augmented"
    /\ UNCHANGED <<now, scheduler_status, status_file, poll, attempt, tips, err,
                   sleeps, notifs, last, winPolls, winFires, winRaised,
                   winLastRaised, winMarked, winIdleAtNoon, winSent>>
    /\ UNCHANGED callVars

\* The attempt is entered and analyze_greyhound_racing_day raises before its
\* try: the orchestrator's handler runs.
AttemptRaises ==
    /\ pc = "attempt"
    /\ calls' = calls + 1
    /\ aug' = "-"
    /\ last' = AttemptRaised
    /\ \E e \in AttemptErrors : OrchOnException(now, e)
    /\ UNCHANGED <<scheduler_status, status_file, poll, err, winPolls, winFires,
                   winRaised, winLastRaised, winMarked, winIdleAtNoon, winSent>>
    /\ UNCHANGED callVars

\* The augmented call answers after d seconds.  An accepted answer is
\* post-processed and returned to the orchestrator; otherwise the plain call
\* is awaited.
AugmentedCall ==
    /\ pc = "augmented"
    /\ \E o \in AugOutcomes : \E d \in AugDurations(o) : \E dl \in LongDateLens :
         LET x == CallGeminiWithSearchGrounding(o) IN
         /\ IF AugAccepted(x)
              THEN LET r == PostProcess(x.ret[1], dl) IN
                   /\ aug' = "-"
                   /\ OrchOnResult(now + d, r)
                   /\ last' = Attempted(HowEnded(r), FALSE, r)
              ELSE /\ aug' = o.type
                   /\ now' = now + d
                   /\ pc' = "fallback"
                   /\ UNCHANGED <<attempt, tips, sleeps, notifs, last>>
    /\ UNCHANGED <<scheduler_status, status_file, poll, err, calls, winPolls,
                   winFires, winRaised, winLastRaised, winMarked, winIdleAtNoon,
                   winSent>>
    /\ UNCHANGED callVars

\* The plain call answers after d seconds; the attempt returns.
FallbackCall ==
    /\ pc = "fallback"
    /\ \E o \in FallbackOutcomes : \E d \in CallDurations : \E dl \in LongDateLens :
         LET x == CallGeminiFallback(o)
             r == AnalyzeAfterFallback(x, dl) IN
         /\ OrchOnResult(now + d, r)
         /\ last' = Attempted(HowEnded(r), ~Truthy(x), r)
    /\ aug' = "-"
    /\ UNCHANGED <<scheduler_status, status_file, poll, err, calls, winPolls,
                   winFires, winRaised, winLastRaised, winMarked, winIdleAtNoon,
                   winSent>>
    /\ UNCHANGED callVars

-----------------------------------------------------------------------------
(* Delivery, and the end of the fire *)

\* A delivery whose failed send reaches the scheduler's handler.
SendTipsPropagates ==
    /\ pc = "deliver"
    /\ \E w \in WebhookOutcomes(tips[1]) :
         /\ winSent' = IF w.sent > 0 THEN winSent \cup {Entry(tips[1])} ELSE winSent
         /\ now' = now + w.secs
         /\ IF w.sent = 0
              THEN /\ err' = Some(Exc("ClientError", 12, FALSE))
                   /\ pc' = "except"
              ELSE /\ err' = err
                   /\ pc' = "mark"
    /\ tips' = None
    /\ UNCHANGED <<scheduler_status, status_file, poll, attempt, aug, calls,
                   sleeps, notifs, last, winPolls, winFires, winRaised,
                   winLastRaised, winMarked, winIdleAtNoon>>
    /\ UNCHANGED callVars

\* send_tips_as_separate_messages(tips): the texts of this model hold no
\* selection marker, so all their lines are header lines and the stripped
\* header is the one embed sent, followed by a sleep of one second.  If its
\* send raises, the handler calls send_webhook_message(content).
SendTips ==
    /\ pc = "deliver"
    /\ LET content == tips[1] IN
       \/ /\ StripLen(content) = 0
          /\ UNCHANGED <<now, winSent>>
       \/ /\ StripLen(content) > 0
          /\ winSent' = winSent \cup {Entry(content)}
          /\ now' = now + 1
       \/ /\ StripLen(content) > 0
          /\ \E w \in WebhookOutcomes(content) :
               /\ winSent' = IF w.sent > 0 THEN winSent \cup {Entry(content)} ELSE winSent
               /\ now' = now + w.secs
    /\ tips' = None
    /\ pc' = "mark"
    /\ UNCHANGED <<scheduler_status, status_file, poll, attempt, aug, err, calls,
                   sleeps, notifs, last, winPolls, winFires, winRaised,
                   winLastRaised, winMarked, winIdleAtNoon>>
    /\ UNCHANGED callVars

\* Lines 1430-1436 and the rest of the iteration: the day is marked, the
\* status saved, the loop sleeps.
MarkCompleted ==
    /\ pc = "mark"
    /\ scheduler_status' = StatusOf(TodayStr(poll[1]), poll[1])
    /\ status_file' \in SavedFiles(status_file, scheduler_status')
    /\ pc' = "poll"
    /\ ClearFire
    /\ EndIteration(now, scheduler_status', winIdleAtNoon)
    /\ UNCHANGED <<winPolls, winFires, winRaised, winLastRaised, winMarked, winSent>>
    /\ UNCHANGED callVars

\* A handler that marks the day although the fire raised.
SchedulerExceptMarks ==
    /\ pc = "except"
    /\ scheduler_status' = StatusOf(TodayStr(poll[1]), poll[1])
    /\ status_file' \in SavedFiles(status_file, scheduler_status')
    /\ pc' = "poll"
    /\ ClearFire
    /\ EndIteration(now, scheduler_status', winIdleAtNoon)
    /\ UNCHANGED <<winPolls, winFires, winRaised, winLastRaised, winMarked, winSent>>
    /\ UNCHANGED callVars

\* Lines 1438-1452 and the rest of the iteration: the error note is sent with
\* send_webhook_message, nothing is marked, the loop sleeps.
SchedulerExcept ==
    /\ pc = "except"
    /\ \E fd \in ShortDateLens :
         LET note == SchedulerErrorText(err[1], fd) IN
         \E w \in WebhookOutcomes(note) :
           /\ winSent' = IF w.sent > 0 THEN winSent \cup {Entry(note)} ELSE winSent
           /\ EndIteration(now + w.secs, scheduler_status, winIdleAtNoon)
    /\ pc' = "poll"
    /\ ClearFire
    /\ UNCHANGED <<scheduler_status, status_file, winPolls, winFires, winRaised,
                   winLastRaised, winMarked>>
    /\ UNCHANGED callVars

-----------------------------------------------------------------------------
Next ==
    \/ PollIdle
    \/ PollFire
    \/ GenerateTips
    \/ FireRaises
    \/ GenerateReturns
    \/ AttemptCalls
    \/ AttemptRaises
    \/ AugmentedCall
    \/ FallbackCall
    \/ SendTips
    \/ MarkCompleted
    \/ SchedulerExcept

Spec == Init /\ [][Next]_vars

-----------------------------------------------------------------------------
(* Single calls: the scheduled process is not running *)

Parked ==
    /\ now = 0
    /\ pc = "off"
    /\ scheduler_status = DefaultStatus
    /\ status_file = None
    /\ poll = None
    /\ attempt = 0
    /\ aug = "-"
    /\ tips = None
    /\ err = None
    /\ calls = 0
    /\ sleeps = 0
    /\ notifs = 0
    /\ last = NoAttempt
    /\ winPolls = 0
    /\ winFires = 0
    /\ winRaised = 0
    /\ winLastRaised = FALSE
    /\ winMarked = FALSE
    /\ winIdleAtNoon = FALSE
    /\ winSent = {}

\* Numbers 1 .. n as a sequence.
Upto(n) == [i \in 1 .. n |-> i]

\* The elements of sequence q at the positions idx.
Pick(q, idx) == [k \in 1 .. Len(idx) |-> q[idx[k]]]

\* Sequences over S of at most n elements.
SeqsUpTo(S, n) == UNION { [1 .. k -> S] : k \in 0 .. n }

\* Texts of at most n lines over S (split('\n') yields at least one line).
TextsUpTo(S, n) == SeqsUpTo(S, n) \ {<<>>}

-----------------------------------------------------------------------------
(* Lines of a report *)

\* Lines a text may hold (response_text.split('\n')).
MaxLines == 4

\* A line, by what the passes look at: its class; the number after "Race"
\* (0: none); the track that closes the line after a "|" (0: none); the tier
\* a section header names; the units a stake line states, in tenths.
Line(c, r, k, t, u) == [cls |-> c, race |-> r, track |-> k, tier |-> t, units |-> u]

\* "🐕 **Name** | Race r | Track k"; with k = 0, "🐕 **Name** Race r".
DogLine(r, k)  == Line("dog", r, k, "-", 0)
\* "🐕 **GREYHOUND SELECTIONS FOR ...:**": a dog line without "Race".
DogTitle       == Line("dogtitle", 0, 0, "-", 0)
\* "**🏆 PREMIUM SELECTIONS (1.5 Units)**" and its two siblings.
HeaderLine(t)  == Line("header", 0, 0, t, 0)
\* "💰 **Stake:** u Units | **Bet Type:** ..."
StakeLine(u)   == Line("stake", 0, 0, "-", u)
\* "📦 **Box:** 3 | ⏰ **Time:** ..." : opens with a character that is no letter.
DetailLine     == Line("detail", 0, 0, "-", 0)
\* "📍 Venue | Track k": opens with no letter, closes with "| Track".
PipeLine(k)    == Line("pipe", 0, k, "-", 0)
\* "strong railer.": opens with letters.
ProseLine      == Line("prose", 0, 0, "-", 0)
BlankLine      == Line("blank", 0, 0, "-", 0)

Tiers == {"premium", "solid", "speculative"}

-----------------------------------------------------------------------------
(* filter_diverse_selections *)

\* line.strip().startswith('🐕') and 'Race' in line
IsSelectionLine(l) == l.cls = "dog"
\* line.strip().startswith('🐕')
StartsWithDog(l)   == l.cls \in {"dog", "dogtitle"}
\* line.strip().startswith('**') and ('SELECTIONS' in line or 'PLAYS' in line)
IsSectionHeader(l) == l.cls = "header"
\* not line.strip()
IsBlank(l)         == l.cls = "blank"

NoKey == <<>>

\* What "[A-Za-z\s]+" goes on to match after the track that closes line j
\* of the block: blank lines, then the letters that open the next line.
\* 0: nothing but whitespace; n + 1: the opening words of a prose line that
\* follows n blank lines.
RECURSIVE Spill(_, _, _)
Spill(blk, j, n) ==
    IF j > Len(blk) THEN 0
    ELSE IF IsBlank(blk[j]) THEN Spill(blk, j + 1, n + 1)
    ELSE IF blk[j].cls = "prose" THEN n + 1
    ELSE 0

\* The first position of the block whose line satisfies P (0: none).
FirstWith(blk, P(_)) ==
    LET hits == {j \in 1 .. Len(blk) : P(blk[j])} IN
    IF hits = {} THEN 0 ELSE CHOOSE j \in hits : \A h \in hits : j <= h

\* race_key of a selection: "Race n ... | track" on one line (the first
\* search), else "Race n" and a "| track" that closes a line (the later
\* searches); f"{track.strip().lower()}_{race_num}".
RaceKey(blk) ==
    LET HasBoth(l)  == l.race > 0 /\ l.track > 0
        HasRace(l)  == l.race > 0
        HasTrack(l) == l.track > 0
        m1 == FirstWith(blk, HasBoth)
        r2 == FirstWith(blk, HasRace)
        t2 == FirstWith(blk, HasTrack)
    IN  IF m1 > 0
          THEN <<blk[m1].track, Spill(blk, m1 + 1, 0), blk[m1].race>>
          ELSE IF r2 > 0 /\ t2 > 0
                 THEN <<blk[t2].track, 0, blk[r2].race>>
                 ELSE NoKey

\* A filter that drops the selections it finds no key for.
KeepKeyedOnly(key, used) == key # NoKey /\ key \notin used

\* "if not race_key or race_key not in used_races"
KeepSelection(key, used) == key = NoKey \/ key \notin used

\* The state of the loop: positions (in lines) of filtered_lines and of
\* current_selection, in_selection, used_races.
FilterStart == [filtered |-> <<>>, current |-> <<>>, in_selection |-> FALSE, used |-> {}]

\* "Process previous selection if any" and "Process final selection".
ProcessSelection(st, lines) ==
    IF st.current = <<>> THEN st
    ELSE LET key == RaceKey(Pick(lines, st.current)) IN
         IF KeepSelection(key, st.used)
           THEN [st EXCEPT !.filtered = st.filtered \o st.current,
                           !.used = IF key = NoKey THEN st.used ELSE st.used \cup {key}]
           ELSE st

\* The body of "for line in lines", for the line at position i.
FilterLine(st, lines, i) ==
    LET line == lines[i] IN
    IF IsSelectionLine(line)
      THEN [ProcessSelection(st, lines) EXCEPT !.current = <<i>>, !.in_selection = TRUE]
    ELSE IF st.in_selection /\ IsSectionHeader(line)
      THEN [st EXCEPT !.in_selection = FALSE, !.filtered = Append(st.filtered, i)]
    ELSE IF st.in_selection /\ ~IsBlank(line) /\ ~StartsWithDog(line)
      THEN [st EXCEPT !.current = Append(st.current, i)]
    ELSE IF ~st.in_selection
      THEN [st EXCEPT !.filtered = Append(st.filtered, i)]
    ELSE IF IsBlank(line)
      THEN [st EXCEPT !.current = Append(st.current, i)]
    ELSE st

RECURSIVE FilterLoop(_, _, _)
FilterLoop(st, lines, i) ==
    IF i > Len(lines) THEN st ELSE FilterLoop(FilterLine(st, lines, i), lines, i + 1)

\* The positions of the lines of the result, in the order of the result.
FilterPositions(lines) ==
    ProcessSelection(FilterLoop(FilterStart, lines, 1), lines).filtered

\* filter_diverse_selections(response_text), as lines.
FilterDiverseSelections(lines) == Pick(lines, FilterPositions(lines))

\* Lines of the texts filtered here.
FilterLines ==
    { DogLine(1, 1), DogLine(2, 1), DogLine(1, 0), PipeLine(1), DogTitle,
      HeaderLine("solid"), DetailLine, ProseLine, BlankLine }

FilterInit ==
    /\ Parked
    /\ arg \in TextsUpTo(FilterLines, MaxLines)
    /\ res = <<>>
    /\ stage = "text"

\* final_answer = filter_diverse_selections(final_answer)
FilterOnce ==
    /\ stage = "text"
    /\ res' = <<FilterDiverseSelections(arg)>>
    /\ stage' = "filtered"
    /\ UNCHANGED <<arg, progVars>>

\* The filter applied to its own result.
FilterAgain ==
    /\ stage = "filtered"
    /\ res' = Append(res, FilterDiverseSelections(res[1]))
    /\ stage' = "refiltered"
    /\ UNCHANGED <<arg, progVars>>

FilterNext ==
    \/ FilterOnce
    \/ FilterAgain

SpecFilter == FilterInit /\ [][FilterNext]_vars

-----------------------------------------------------------------------------
(* validate_and_fix_selections *)

\* '💰 **Stake:** 1.5 Units | **Bet Type:** Win' and its two siblings: the
\* string the pass writes for a tier.
CanonLine(t)   == Line("canon", 0, 0, t, 0)
\* '❌ No premium selections found today - ...'
NoPremiumLine  == Line("nopremium", 0, 0, "-", 0)

\* line.strip().startswith('💰 **Stake:**')
IsStakeLine(l) == l.cls \in {"stake", "canon"}

\* 'PREMIUM SELECTIONS (1.5 Units)' in line, and its two siblings.
IsTierHeader(l, t) == l.cls = "header" /\ l.tier = t
NoSection == "-"
SectionOf(l, section) ==
    IF \E t \in Tiers : IsTierHeader(l, t) THEN l.tier ELSE section

\* A pass that writes every stake line back as the text stated it.
FixedStakeAsStated(section, l) == l

\* The line written for a stake line met in current_section.
FixedStake(section, l) ==
    IF section \in Tiers THEN CanonLine(section) ELSE l

\* The first loop: fixed_lines.
RECURSIVE FixLoop(_, _, _)
FixLoop(lines, i, section) ==
    IF i > Len(lines) THEN <<>>
    ELSE LET l == lines[i] IN
         IF \E t \in Tiers : IsTierHeader(l, t)
           THEN <<l>> \o FixLoop(lines, i + 1, SectionOf(l, section))
           ELSE IF IsStakeLine(l)
                  THEN <<FixedStake(section, l)>> \o FixLoop(lines, i + 1, section)
                  ELSE <<l>> \o FixLoop(lines, i + 1, section)

\* premium_header_idx (0: None).
PremiumHeaderIdx(fixed) ==
    LET IsPremium(l) == IsTierHeader(l, "premium") IN FirstWith(fixed, IsPremium)

\* has_actual_premium: the scan below the premium header stops at the first
\* line that opens with the dog marker (found), names the solid or the
\* speculative section (not found) or holds the no-premium message (found).
HasActualPremium(fixed, idx) ==
    LET Stops(l) == \/ StartsWithDog(l)
                    \/ IsTierHeader(l, "solid") \/ IsTierHeader(l, "speculative")
                    \/ l.cls = "nopremium"
        stops == {j \in idx + 1 .. Len(fixed) : Stops(fixed[j])}
    IN  /\ stops # {}
        /\ LET j == CHOOSE h \in stops : \A g \in stops : h <= g IN
           StartsWithDog(fixed[j]) \/ fixed[j].cls = "nopremium"

\* The three lines inserted below a premium header without selections.
InsertsNoPremium(fixed) ==
    PremiumHeaderIdx(fixed) > 0 /\ ~HasActualPremium(fixed, PremiumHeaderIdx(fixed))

ValidateAndFixSelections(lines) ==
    LET fixed == FixLoop(lines, 1, NoSection)
        idx   == PremiumHeaderIdx(fixed)
    IN  IF InsertsNoPremium(fixed)
          THEN SubSeq(fixed, 1, idx) \o <<BlankLine, NoPremiumLine, BlankLine>>
                 \o SubSeq(fixed, idx + 1, Len(fixed))
          ELSE fixed

\* The lines the texts of the calls are made of.
StakeLines ==
    { HeaderLine("premium"), HeaderLine("solid"), HeaderLine("speculative"),
      StakeLine(20), StakeLine(15), CanonLine("solid"),
      DogLine(1, 1), NoPremiumLine, DetailLine }

StakeInit ==
    /\ Parked
    /\ arg \in TextsUpTo(StakeLines, MaxLines)
    /\ res = <<>>
    /\ stage = "text"

\* validated = validate_and_fix_selections(text)
ValidateOnce ==
    /\ stage = "text"
    /\ res' = <<ValidateAndFixSelections(arg)>>
    /\ stage' = "validated"
    /\ UNCHANGED <<arg, progVars>>

\* validate_and_fix_selections(validated)
ValidateAgain ==
    /\ stage = "validated"
    /\ res' = Append(res, ValidateAndFixSelections(res[1]))
    /\ stage' = "revalidated"
    /\ UNCHANGED <<arg, progVars>>

StakeNext ==
    \/ ValidateOnce
    \/ ValidateAgain

SpecStake == StakeInit /\ [][StakeNext]_vars

-----------------------------------------------------------------------------
(* The notifier: send_webhook_message, send_tips_as_separate_messages *)

\* Lines a delivered text may hold.
MaxSendLines == 3

\* A line of a delivered text, by what the notifier looks at: its class and
\* its length in characters.  "tip": holds '🐕 **', or opens with '🏁' and
\* holds 'Race'; "disclaimer": opens with '⚠️ **DISCLAIMER'; "blank":
\* whitespace only; "plain": any other.  Lines that are not blank open and
\* close with a character that is no whitespace.
SizedLine(c, n) == [cls |-> c, len |-> n]

Min(a, b) == IF a < b THEN a ELSE b

\* Offset in the text of the first character of line i: the lines before it
\* and the line feed after each.
RECURSIVE LineStart(_, _)
LineStart(lines, i) ==
    IF i = 1 THEN 0 ELSE LineStart(lines, i - 1) + lines[i - 1].len + 1

\* len(content)
ContentLen(lines) == LineStart(lines, Len(lines)) + lines[Len(lines)].len

\* A piece of the text is the pair <<from, to>> of offsets, content[from:to].
\* '\n'.join(section).strip(): from the first to the last line of the
\* section that is not blank; <<0, 0>> if there is none.
Stripped(lines, ps) ==
    LET nb == {k \in 1 .. Len(ps) : lines[ps[k]].cls # "blank"} IN
    IF nb = {} THEN <<0, 0>>
    ELSE LET a == ps[CHOOSE k \in nb : \A h \in nb : k <= h]
             b == ps[CHOOSE k \in nb : \A h \in nb : h <= k]
         IN  <<LineStart(lines, a), LineStart(lines, b) + lines[b].len>>

PieceLen(piece) == piece[2] - piece[1]

\* piece[:4096]
Cut(piece) == <<piece[1], Min(piece[2], piece[1] + EmbedMax)>>

\* The tests of the parsing loop.
IsTipStart(l)        == l.cls = "tip"
IsDisclaimerStart(l) == l.cls = "disclaimer"

\* header_lines, tip_sections, current_tip (positions of lines),
\* in_tips_section, collecting_tip.
ParseStart ==
    [header |-> <<>>, tips |-> <<>>, current |-> <<>>,
     in_tips |-> FALSE, collecting |-> FALSE]

Saved(st) == IF st.current # <<>> THEN Append(st.tips, st.current) ELSE st.tips

\* The body of "for line in lines".
ParseLine(st, lines, i) ==
    IF IsTipStart(lines[i])
      THEN [st EXCEPT !.in_tips = TRUE, !.collecting = TRUE,
                      !.tips = Saved(st), !.current = <<i>>]
    ELSE IF st.in_tips /\ st.collecting
      THEN IF IsDisclaimerStart(lines[i])
             THEN [st EXCEPT !.tips = Saved(st), !.collecting = FALSE,
                             !.current = <<i>>]
             ELSE [st EXCEPT !.current = Append(st.current, i)]
    ELSE IF ~st.in_tips
      THEN [st EXCEPT !.header = Append(st.header, i)]
      ELSE [st EXCEPT !.current = Append(st.current, i)]

RECURSIVE ParseLoop(_, _, _)
ParseLoop(st, lines, i) ==
    IF i > Len(lines) THEN st ELSE ParseLoop(ParseLine(st, lines, i), lines, i + 1)

\* "Don't forget the last section": a closing disclaimer is kept if its
\* stripped text is longer than 20 characters.
ParseSections(lines) ==
    LET st == ParseLoop(ParseStart, lines, 1) IN
    IF st.current = <<>> THEN st
    ELSE IF st.collecting THEN [st EXCEPT !.tips = Saved(st)]
    ELSE IF PieceLen(Stripped(lines, st.current)) > 20
           THEN [st EXCEPT !.tips = Saved(st)]
           ELSE st

\* The embeds of send_tips_as_separate_messages in the order of their sends:
\* the stripped header if it is not empty, then every tip section whose
\* stripped text is not empty; whole is the section, body the description.
\* An embed carries the title, and its message the role mention
\* (mention_user is true), if it is the header, or the tip section of index 0
\* when header_lines is empty ("if i == 0 and not header_lines").
RECURSIVE TipEmbeds(_, _, _)
TipEmbeds(lines, st, k) ==
    IF k > Len(st.tips) THEN <<>>
    ELSE LET whole == Stripped(lines, st.tips[k])
             first == k = 1 /\ st.header = <<>>
         IN  (IF PieceLen(whole) > 0
                THEN <<[part |-> "tip", whole |-> whole, body |-> Cut(whole),
                        title |-> first, mention |-> first]>>
                ELSE <<>>) \o TipEmbeds(lines, st, k + 1)

TipsPlan(lines) ==
    LET st    == ParseSections(lines)
        whole == Stripped(lines, st.header)
    IN  (IF st.header # <<>> /\ PieceLen(whole) > 0
           THEN <<[part |-> "header", whole |-> whole, body |-> Cut(whole),
                   title |-> TRUE, mention |-> TRUE]>>
           ELSE <<>>) \o TipEmbeds(lines, st, 1)

\* A send: the function that made it, the piece of the text in its
\* description, and whether webhook.send returned or raised.
Sent(fn, body, ok) == [fn |-> fn, from |-> body[1], to |-> body[2], ok |-> ok]

SendsOf(fn, log) == SelectSeq(log, LAMBDA m : m.fn = fn)

\* A send_webhook_message that never continues.
WebhookFirstOnly(total, w) == w = <<>>

\* send_webhook_message has another embed to send after the sends w: the
\* first one always; "while remaining_content" if len(content) > 4096.
WebhookMore(total, w) ==
    IF w = <<>> THEN TRUE ELSE total > EmbedMax /\ w[Len(w)].to < total

\* Its description: content[:4096], then remaining_content[:4096].
WebhookBody(total, w) ==
    IF w = <<>> THEN Cut(<<0, total>>)
    ELSE Cut(<<w[Len(w)].to, total>>)

\* The lines the delivered texts are made of.
SendLines ==
    { SizedLine("blank", 0), SizedLine("plain", 10), SizedLine("plain", EmbedMax),
      SizedLine("plain", EmbedMax + 1), SizedLine("tip", 30),
      SizedLine("tip", EmbedMax + 1), SizedLine("disclaimer", 98) }

\* A call of one of the two functions on a text; res is the log of its sends.
NotifierInit ==
    /\ Parked
    /\ arg \in [fn : {"tips", "webhook"}, lines : TextsUpTo(SendLines, MaxSendLines)]
    /\ res = <<>>
    /\ stage = arg.fn

\* send_tips_as_separate_messages: "await webhook.send" of the next embed
\* returns.
TipsSend ==
    /\ stage = "tips"
    /\ LET plan == TipsPlan(arg.lines)
           n    == Len(SendsOf("tips", res))
       IN  /\ n < Len(plan)
           /\ res' = Append(res, Sent("tips", plan[n + 1].body, TRUE))
    /\ UNCHANGED <<arg, stage, progVars>>

\* The send raises: "except Exception", then
\* "await send_webhook_message(content, title, mention_user)".
TipsFallback ==
    /\ stage = "tips"
    /\ LET plan == TipsPlan(arg.lines)
           n    == Len(SendsOf("tips", res))
       IN  /\ n < Len(plan)
           /\ res' = Append(res, Sent("tips", plan[n + 1].body, FALSE))
    /\ stage' = "webhook"
    /\ UNCHANGED <<arg, progVars>>

\* All embeds are sent: the function returns.
TipsReturn ==
    /\ stage = "tips"
    /\ Len(SendsOf("tips", res)) = Len(TipsPlan(arg.lines))
    /\ stage' = "returned"
    /\ UNCHANGED <<arg, res, progVars>>

\* send_webhook_message: "await webhook.send" of the next embed returns.
WebhookSend ==
    /\ stage = "webhook"
    /\ LET w == SendsOf("webhook", res) IN
       /\ WebhookMore(ContentLen(arg.lines), w)
       /\ res' = Append(res, Sent("webhook", WebhookBody(ContentLen(arg.lines), w), TRUE))
    /\ UNCHANGED <<arg, stage, progVars>>

\* The send raises: "except Exception: print", and the function returns.
WebhookRaise ==
    /\ stage = "webhook"
    /\ LET w == SendsOf("webhook", res) IN
       /\ WebhookMore(ContentLen(arg.lines), w)
       /\ res' = Append(res, Sent("webhook", WebhookBody(ContentLen(arg.lines), w), FALSE))
    /\ stage' = "returned"
    /\ UNCHANGED <<arg, progVars>>

\* Nothing is left to send: the function returns.
WebhookReturn ==
    /\ stage = "webhook"
    /\ ~WebhookMore(ContentLen(arg.lines), SendsOf("webhook", res))
    /\ stage' = "returned"
    /\ UNCHANGED <<arg, res, progVars>>

NotifierNext ==
    \/ TipsSend
    \/ TipsFallback
    \/ TipsReturn
    \/ WebhookSend
    \/ WebhookRaise
    \/ WebhookReturn

SpecNotifier == NotifierInit /\ [][NotifierNext]_vars

-----------------------------------------------------------------------------
(* Dates: get_effective_date and the date anchor of the prompt *)

\* Days of instants a run may start in.
MaxDateDays == 2

HoursPerDay == 24

\* Hours a zone is ahead of UTC: Perth keeps one offset, Sydney a standard
\* and a daylight-saving one.
UtcOffset(tz, dst) ==
    CASE tz = "Australia/Perth"  -> 8
      [] tz = "Australia/Sydney" -> IF dst THEN 11 ELSE 10

\* An aware datetime of zone tz at the instant utc (hours since the UTC
\* midnight that opens day 0): its civil date and hour.
LocalTime(utc, tz, dst) ==
    [date |-> (utc + UtcOffset(tz, dst)) \div HoursPerDay,
     hour |-> (utc + UtcOffset(tz, dst)) % HoursPerDay]

\* dt.strftime('%Y-%m-%d')
IsoDate(dt) == dt.date

\* OVERRIDE_DATE: unset, a string strptime parses to a day, or one it
\* rejects with ValueError.
NoOverride       == [kind |-> "unset", day |-> 0]
BadOverride      == [kind |-> "invalid", day |-> 0]
ValidOverride(d) == [kind |-> "valid", day |-> d]
Overrides == {NoOverride, BadOverride} \cup {ValidOverride(d) : d \in {0, 1, 9}}

\* australian_now.astimezone(PERTH_TZ): the instant read in Sydney, handed to
\* the callers as a Perth datetime.
NowForCallers(utc, dst) == LocalTime(utc, "Australia/Perth", dst)

\* get_effective_date() at the instant utc.
GetEffectiveDate(override, utc, dst) ==
    IF override.kind = "valid"
      THEN [date |-> override.day, hour |-> NoonHour]
      ELSE NowForCallers(utc, dst)

\* analyze_greyhound_racing_day at the instant utc: au_iso, which is written
\* into the prompt and sent as DATE_AU.
PromptDates(utc, dst) ==
    LET au_now == LocalTime(utc, "Australia/Sydney", dst) IN
    [au_iso |-> IsoDate(au_now), date_au |-> IsoDate(au_now)]

\* Hours between the call of get_effective_date and the attempt whose
\* prompt is sent: none, or one after retries.
Elapsed == {0, 1}

DatesInit ==
    /\ Parked
    /\ arg \in [utc : 0 .. MaxDateDays * HoursPerDay - 1, dst : BOOLEAN,
                override : Overrides]
    /\ res = <<>>
    /\ stage = "start"

\* generate_greyhound_tips: perth_now = get_effective_date(),
\* target_date_search = perth_now.strftime("%Y-%m-%d").
ResolveDate ==
    /\ stage = "start"
    /\ res' = <<GetEffectiveDate(arg.override, arg.utc, arg.dst)>>
    /\ stage' = "resolved"
    /\ UNCHANGED <<arg, progVars>>

\* analyze_greyhound_racing_day builds its prompt and calls the service.
BuildPrompt ==
    /\ stage = "resolved"
    /\ \E h \in Elapsed : res' = Append(res, PromptDates(arg.utc + h, arg.dst))
    /\ stage' = "prompted"
    /\ UNCHANGED <<arg, progVars>>

DatesNext ==
    \/ ResolveDate
    \/ BuildPrompt

SpecDates == DatesInit /\ [][DatesNext]_vars

-----------------------------------------------------------------------------
(* The daily predictions file: save_daily_predictions, load_daily_predictions *)

\* A DailyPredictionRecord: 'date', 'predictions' (always []), and the hour
\* of 'generated_at'.
Record(d, h) == [date |-> d, predictions |-> <<>>, generated_at |-> h]

\* json.dump(record, f, indent=2) writes the three members in the order of
\* the dict; json.load(f) builds the dict from them.
JsonDump(r) == <<<<"date", r.date>>, <<"predictions", r.predictions>>,
                 <<"generated_at", r.generated_at>>>>
JsonLoad(doc) ==
    LET At(key) == doc[CHOOSE k \in 1 .. Len(doc) : doc[k][1] = key][2] IN
    [date |-> At("date"), predictions |-> At("predictions"),
     generated_at |-> At("generated_at")]

\* default_predictions_for_today() at the instant utc: the date of Sydney,
\* the time of Perth.
DefaultPredictionsForToday(utc, dst) ==
    Record(LocalTime(utc, "Australia/Sydney", dst).date,
           LocalTime(utc, "Australia/Perth", dst).hour)

\* predictions_data of generate_greyhound_tips: both members are renderings
\* of perth_now = get_effective_date().
PredictionsData(override, utc, dst) ==
    LET perth_now == GetEffectiveDate(override, utc, dst) IN
    Record(IsoDate(perth_now), perth_now.hour)

\* data.get('date') == today_str, today_str the date of Sydney.
SameDay(data, utc, dst) ==
    data.date = LocalTime(utc, "Australia/Sydney", dst).date

\* load_daily_predictions() at the instant utc on the file: what it returns
\* and what the file holds afterwards.  An absent file, and one of another
\* day, is rewritten with the default; raised marks an exception of the
\* file system, which returns the default and leaves the file alone.
LoadDailyPredictions(file, utc, dst, raised) ==
    LET today_default == DefaultPredictionsForToday(utc, dst) IN
    IF raised THEN [data |-> today_default, file |-> file]
    ELSE IF file # None /\ SameDay(JsonLoad(file[1]), utc, dst)
           THEN [data |-> JsonLoad(file[1]), file |-> file]
           ELSE [data |-> today_default, file |-> Some(JsonDump(today_default))]

\* Hours from the write to the read.
ReadDelays == {0, 1, 2, 3, HoursPerDay, 2 * HoursPerDay}

\* res is <<the file, the record written, the record read, the instant of
\* the read, whether the read raised>>.
PersistInit ==
    /\ Parked
    /\ arg \in [utc : 0 .. MaxDateDays * HoursPerDay - 1, dst : BOOLEAN,
                override : {NoOverride, ValidOverride(0), ValidOverride(1)}]
    /\ res = <<None, None, None, None, FALSE>>
    /\ stage = "start"

\* generate_greyhound_tips, lines 355-361: the record is written.
SavePredictions ==
    /\ stage = "start"
    /\ LET data == PredictionsData(arg.override, arg.utc, arg.dst) IN
       res' = <<Some(JsonDump(data)), Some(data), None, None, FALSE>>
    /\ stage' = "saved"
    /\ UNCHANGED <<arg, progVars>>

\* save_daily_predictions: open or json.dump raises, "except Exception:
\* print"; the file is as it was.
SaveFails ==
    /\ stage = "start"
    /\ res' = <<None, None, None, None, FALSE>>
    /\ stage' = "unsaved"
    /\ UNCHANGED <<arg, progVars>>

\* load_daily_predictions, some hours later.
LoadPredictions ==
    /\ stage \in {"saved", "unsaved"}
    /\ \E h \in ReadDelays, raised \in BOOLEAN :
         LET out == LoadDailyPredictions(res[1], arg.utc + h, arg.dst, raised) IN
         res' = <<out.file, res[2], Some(out.data), Some(arg.utc + h), raised>>
    /\ stage' = "loaded"
    /\ UNCHANGED <<arg, progVars>>

PersistNext ==
    \/ SavePredictions
    \/ SaveFails
    \/ LoadPredictions

SpecPersist == PersistInit /\ [][PersistNext]_vars

-----------------------------------------------------------------------------
(* analyze_greyhound_racing_day: the passes over the lines of the answer *)

\* "**STEP 1: ...**": a line the step-marker pass skips.
StepLine          == Line("step", 0, 0, "-", 0)
\* "⏰ **Time:** XX:XX AWST": a line of the prompt's template.
FakeLine          == Line("fake", 0, 0, "-", 0)
\* "❌ No current greyhound race data found": one of the no_data_indicators.
NoDataLine        == Line("nodata", 0, 0, "-", 0)
\* "⚠️ **DISCLAIMER**: Check current odds with your bookmaker before placing
\* bets. Gamble responsibly."
OddsDisclaimer    == Line("disclaimer", 0, 0, "odds", 0)
\* "⚠️ **DISCLAIMER**: Racing schedules can vary. Always check official
\* sources for the most current information."
SourcesDisclaimer == Line("disclaimer", 0, 0, "sources", 0)
\* "🔍 **COMPREHENSIVE SEARCH COMPLETED**"
SearchCompleted   == Line("searchcompleted", 0, 0, "-", 0)

\* line.strip().startswith(('**STEP', 'STEP 1:', ..., 'STEP 5:'))
IsStepMarker(l) == l.cls = "step"

\* any(indicator in full_response for indicator in no_data_indicators)
ContainsNoDataMessage(lines) == \E k \in 1 .. Len(lines) : lines[k].cls = "nodata"

\* The report returned for a no-data answer, by its heading and its last
\* line.
NoDataReport == <<SearchCompleted, SourcesDisclaimer>>

\* full_response = final_answer + disclaimer, then the no-data substitution.
Returned(kept) ==
    LET full_response == kept \o <<BlankLine, OddsDisclaimer>> IN
    IF ContainsNoDataMessage(full_response) THEN NoDataReport ELSE full_response

\* The lines of '\n'.join(lines_to_keep): the text joined from no line is
\* the empty text, which is one blank line.
JoinedLines(kept) == IF kept = <<>> THEN <<BlankLine>> ELSE kept

\* Lines 1053-1129 on the lines of final_answer: every stage of the text.
PostProcessLines(lines) ==
    LET filtered  == FilterDiverseSelections(lines)
        validated == ValidateAndFixSelections(filtered)
        kept      == JoinedLines(SelectSeq(validated, LAMBDA l : ~IsStepMarker(l)))
    IN  [filtered |-> filtered, validated |-> validated, kept |-> kept,
         returned |-> Returned(kept)]

\* The lines the answers are made of.
PostLines ==
    { HeaderLine("premium"), HeaderLine("solid"), DogLine(1, 1), DogLine(2, 1),
      StakeLine(20), StepLine, FakeLine, NoDataLine, BlankLine }

PostInit ==
    /\ Parked
    /\ arg \in TextsUpTo(PostLines, MaxLines)
    /\ res = <<>>
    /\ stage = "answer"

\* The answer of the service is post-processed and returned.
PostProcessOnce ==
    /\ stage = "answer"
    /\ res' = <<PostProcessLines(arg)>>
    /\ stage' = "returned"
    /\ UNCHANGED <<arg, progVars>>

PostNext == PostProcessOnce

SpecPost == PostInit /\ [][PostNext]_vars

-----------------------------------------------------------------------------
(* RUN_MODE = 'research': main() awaits research_analysis_only() *)

\* main() has reached "if mode == 'research'".
ResearchInit ==
    /\ now \in StartTimes
    /\ pc = "research"
    /\ scheduler_status = DefaultStatus
    /\ status_file = None
    /\ poll = None
    /\ attempt = 0
    /\ aug = "-"
    /\ tips = None
    /\ err = None
    /\ calls = 0
    /\ sleeps = 0
    /\ notifs = 0
    /\ last = NoAttempt
    /\ winPolls = 0
    /\ winFires = 0
    /\ winRaised = 0
    /\ winLastRaised = FALSE
    /\ winMarked = FALSE
    /\ winIdleAtNoon = FALSE
    /\ winSent = {}
    /\ NoCall

\* research_analysis_only, lines 367-373: the retry orchestrator is entered.
ResearchStarts ==
    /\ pc = "research"
    /\ pc' = "attempt"
    /\ UNCHANGED <<now, scheduler_status, status_file, poll, attempt, aug, tips,
                   err, calls, sleeps, notifs, last, winPolls, winFires,
                   winRaised, winLastRaised, winMarked, winIdleAtNoon, winSent>>
    /\ UNCHANGED callVars

\* Lines 375-382 and 1348: the orchestrator has returned, the result is
\* printed, main() ends.
ResearchReturns ==
    /\ pc = "save"
    /\ pc' = "exit"
    /\ UNCHANGED <<now, scheduler_status, status_file, poll, attempt, aug, tips,
                   err, calls, sleeps, notifs, last, winPolls, winFires,
                   winRaised, winLastRaised, winMarked, winIdleAtNoon, winSent>>
    /\ UNCHANGED callVars

ResearchNext ==
    \/ ResearchStarts
    \/ AttemptCalls
    \/ AttemptRaises
    \/ AugmentedCall
    \/ FallbackCall
    \/ ResearchReturns

SpecResearch == ResearchInit /\ [][ResearchNext]_vars

-----------------------------------------------------------------------------
(* One call of analyze_greyhound_racing_day: its completion calls *)

\* A completion call made: the path and what it answered.
Called(path, x) == [path |-> path, answer |-> x]

\* arg is len(au_long); res is the log of the completion calls and, once the
\* function has returned, the text returned.
AttemptInit ==
    /\ Parked
    /\ arg \in LongDateLens
    /\ res = [log |-> <<>>, out |-> None]
    /\ stage = "try"

\* Lines 1009-1017: response = await call_gemini_with_search_grounding(...).
\* An accepted answer goes through the passes and is returned.
CallsAugmented ==
    /\ stage = "try"
    /\ \E o \in AugOutcomes :
         LET x == CallGeminiWithSearchGrounding(o) IN
         IF AugAccepted(x)
           THEN /\ res' = [log |-> Append(res.log, Called("augmented", x)),
                           out |-> Some(PostProcess(x.ret[1], arg))]
                /\ stage' = "returned"
           ELSE /\ res' = [res EXCEPT !.log = Append(res.log, Called("augmented", x))]
                /\ stage' = "except search_error"
    /\ UNCHANGED <<arg, progVars>>

\* Lines 1019-1033: response = await call_gemini_fallback(fallback_prompt).
CallsPlain ==
    /\ stage = "except search_error"
    /\ \E o \in FallbackOutcomes :
         LET x == CallGeminiFallback(o) IN
         res' = [log |-> Append(res.log, Called("plain", [ret |-> x])),
                 out |-> Some(AnalyzeAfterFallback(x, arg))]
    /\ stage' = "returned"
    /\ UNCHANGED <<arg, progVars>>

AttemptNext ==
    \/ CallsAugmented
    \/ CallsPlain

SpecAttempt == AttemptInit /\ [][AttemptNext]_vars

-----------------------------------------------------------------------------
(* The scheduler under a restart policy: the process dies and main() runs again *)

\* Seconds from the death of the process to the first poll of the process
\* that replaces it (lines 1298-1396 run again: the capability test, the
\* load of the status file, the startup note).
RestartDelays == {30}

\* The process dies after the delivery of a fire of the running trigger
\* window, before the day is marked or in the sleep that follows; the one
\* that replaces it holds what load_scheduler_status reads from the file
\* (line 1377) and nothing of the running fire.  What was delivered stays
\* delivered.  It reaches its first poll while the trigger window is open.
Restart ==
    /\ pc \in {"mark", "poll"}
    /\ winFires > 0
    /\ now < Horizon
    /\ \E d \in RestartDelays : IsNoonTime(now + d) /\ now' = now + d
    /\ scheduler_status' = LoadSchedulerStatus(status_file)
    /\ pc' = "poll"
    /\ ClearFire
    /\ UNCHANGED <<status_file, winPolls, winFires, winRaised, winLastRaised,
                   winMarked, winIdleAtNoon, winSent>>
    /\ UNCHANGED callVars

RestartNext ==
    \/ Next
    \/ Restart

\* The process reaches its first poll on the last day that is polled, with
\* no status file, or the one of the day before, or the one of the day.
LastDay == MaxDays - 1

RestartStartTimes ==
    { LastDay * SecondsPerDay + t : t \in StartTimes \ {HMS(0, 0, 30)} }

RestartFiles(t) ==
    {None, Some(StatusOf(LastDay - 1, NoonOf(LastDay - 1)))}
      \cup (IF t > NoonOf(LastDay) THEN {Some(StatusOf(LastDay, NoonOf(LastDay)))} ELSE {})

RestartInit ==
    /\ now \in RestartStartTimes
    /\ pc = "poll"
    /\ status_file \in RestartFiles(now)
    /\ scheduler_status = LoadSchedulerStatus(status_file)
    /\ poll = None
    /\ attempt = 0
    /\ aug = "-"
    /\ tips = None
    /\ err = None
    /\ calls = 0
    /\ sleeps = 0
    /\ notifs = 0
    /\ last = NoAttempt
    /\ winPolls = 0
    /\ winFires = 0
    /\ winRaised = 0
    /\ winLastRaised = FALSE
    /\ winMarked = FALSE
    /\ winIdleAtNoon = FALSE
    /\ winSent = {}
    /\ NoCall

SpecRestart == RestartInit /\ [][RestartNext]_vars

-----------------------------------------------------------------------------
(* Properties *)

\* The trigger window as the specification words it: 12:00:00 to 12:02:59.
InTriggerWindow(t) ==
    /\ HMS(12, 0, 0) <= t % SecondsPerDay
    /\ t % SecondsPerDay <= HMS(12, 2, 59)

\* The marker is the Sydney date of instant t.
MarkedFor(status, t) == status.last_noon_run = <<t \div SecondsPerDay>>

\* All attempts of the running call of the orchestrator are used up and the
\* last one failed too.
Exhausted == pc = "save" /\ calls = 3 /\ last.how \in {"raised", "short"}

\* C1 (as stated): whenever several polls of one date have read a time inside
\* the trigger window and the date was not marked beforehand, the fire has
\* run exactly once, whether it completed or raised.
FireExactlyOncePerWindow ==
    (winPolls >= 2 /\ ~winMarked) => winFires = 1

\* C1 (amended): over the polls of one date that read a time inside the
\* window, a date marked beforehand gets no fire; otherwise the first such
\* poll fires, and a further fire starts only after the one before it raised:
\* exactly one fire when no fire raises, at most one more per raised fire.
FireOncePerCompletedFire ==
    /\ winMarked => winFires = 0
    /\ (winPolls >= 1 /\ ~winMarked) => (winFires >= 1 /\ winFires <= winRaised + 1)

\* Several polls inside the window, one fire, which completed.
FireOncePerCompletedFireWitness ==
    /\ pc = "poll"
    /\ winPolls >= 2
    /\ winFires = 1
    /\ winRaised = 0
    /\ ~winMarked
    /\ MarkedFor(scheduler_status, now)

\* C2: when all three attempts of the orchestrator have failed (raised, or
\* returned an empty or too short text), it returns the recovery-mode text
\* and has sent exactly one operator notification.
ExhaustionRecoversAndNotifiesOnce ==
    Exhausted => (tips[1].kind = "recovery" /\ notifs = 1)

\* C3: when the third attempt is the first to return a text of stripped
\* length above 100, the orchestrator returns it having slept the backoff
\* exactly twice.
BackoffTwiceBeforeThirdAttempt ==
    (pc = "save" /\ calls = 3 /\ last.how = "valid") =>
        (sleeps = 2 /\ tips[1].kind = last.kind /\ StripLen(tips[1]) = last.slen)

\* C4: an attempt in which the augmented and the plain call both failed is
\* counted as failed: the orchestrator goes on to the next attempt while one
\* remains, and returns the recovery-mode text otherwise.
BothCallsFailedCountsAsFailed ==
    [][ (pc = "fallback" /\ pc' # "fallback" /\ last'.both) =>
            IF calls < 3
              THEN pc' = "attempt"
              ELSE pc' = "save" /\ tips'[1].kind = "recovery" ]_vars

\* C5: no text handed to the notifier, and no text delivered to the webhook
\* channel, embeds the text of a raised exception.
NoExceptionTextDelivered ==
    /\ pc = "deliver" => ~tips[1].exc
    /\ \A m \in winSent : ~m.exc

\* C6: a poll starts a fire only when it reads a time inside the trigger
\* window and the marker is not the date it reads; any other poll loops back
\* to the next poll, having started no generation and delivered nothing.
FireOnlyInWindowAndUnmarked ==
    [][ pc = "poll" =>
          IF InTriggerWindow(now) /\ ~MarkedFor(scheduler_status, now)
            THEN pc' = "generate" /\ poll' = <<now>>
            ELSE /\ pc' = "poll"
                 /\ calls' = 0
                 /\ tips' = None
                 /\ winSent' \subseteq winSent ]_vars

\* A fire started by a poll inside the window on an unmarked date.
FireOnlyInWindowAndUnmarkedWitness ==
    /\ pc = "generate"
    /\ poll = <<now>>
    /\ InTriggerWindow(now)
    /\ ~MarkedFor(scheduler_status, now)

\* C7: the handler of a raised fire leaves the status dictionary and the
\* status file as they were and returns to polling, and the next poll, if it
\* still reads a time inside the window, fires again.
RaisedFireLeavesMarkerAndRefires ==
    [][ /\ (pc = "generate" /\ pc' = "except") =>
              (scheduler_status' = scheduler_status /\ status_file' = status_file)
        /\ pc = "except" =>
              /\ scheduler_status' = scheduler_status
              /\ status_file' = status_file
              /\ pc' = "poll"
        /\ (pc = "poll" /\ winLastRaised /\ InTriggerWindow(now)) => pc' = "generate" ]_vars

\* A second fire, started by the poll that followed a raised one.
RaisedFireLeavesMarkerAndRefiresWitness ==
    /\ pc = "generate"
    /\ winRaised = 1
    /\ winFires = 2
    /\ ~MarkedFor(scheduler_status, now)

\* C8: when 12:00:00 of a date falls inside a sleep of the poll loop and the
\* marker is not that date, the poll that ends the sleep reads a time inside
\* the window and starts a fire.
NoMissedFire ==
    [][ (pc = "poll" /\ winIdleAtNoon /\ winFires = 0) =>
            (InTriggerWindow(now) /\ pc' = "generate") ]_vars

\* A fire started by the poll that followed a sleep across 12:00:00.
NoMissedFireWitness ==
    /\ pc = "generate"
    /\ winIdleAtNoon
    /\ winFires = 1

\* C9: an attempt whose augmented call ran into its 600-second ceiling ends
\* with the timeout report, which no transport or HTTP error produces.
TimeoutYieldsTimeoutReport ==
    [][ (pc = "fallback" /\ aug = "timeout") => last'.kind = "timeout" ]_vars

\* C10: one call of the orchestrator makes at most three attempts, and once
\* an attempt has returned a text of stripped length above 100 it makes no
\* further attempt: that text is what it returns.
BoundedRetry ==
    /\ calls <= 3
    /\ (last.kind # "-" /\ last.slen > 100) =>
          /\ pc = "save"
          /\ tips[1].kind = last.kind
          /\ StripLen(tips[1]) = last.slen

\* The third attempt was made and returned an accepted text.
BoundedRetryWitness ==
    /\ pc = "save"
    /\ calls = 3
    /\ last.slen > 100
    /\ sleeps = 1

\* C18: no failure of a webhook send reaches the scheduler: the delivery of
\* the tips is always followed by the marking of the day, and the marking,
\* like the handler's own error note, by the next poll.
DeliveryFailuresDoNotPropagate ==
    [][ /\ pc = "deliver" => pc' = "mark"
        /\ pc \in {"mark", "except"} => pc' = "poll" ]_vars

\* A fire was delivered with every send failing: nothing reached the
\* channel, the day is marked and the loop polls again.
DeliveryFailuresDoNotPropagateWitness ==
    /\ pc = "poll"
    /\ winFires = 1
    /\ winRaised = 0
    /\ winSent = {}
    /\ MarkedFor(scheduler_status, now)

\* C26: the scheduler writes the day into last_noon_run only when the tips
\* of the fire were delivered: a step that marks the day follows a delivery
\* that put at least one embed of the tips on the webhook.
MarkerOnlyAfterDelivery ==
    [][ (pc = "mark" /\ scheduler_status' # scheduler_status) =>
            \E e \in winSent : e.kind # "schederr" ]_vars

-----------------------------------------------------------------------------
(* Properties of filter_diverse_selections *)

Range(q) == {q[k] : k \in 1 .. Len(q)}

\* Positions of the selection lines of a text.
SelectionsOf(lines) == {i \in 1 .. Len(lines) : IsSelectionLine(lines[i])}

\* The selection block that opens at position i: the selection line and the
\* lines after it, up to the next selection line or section header, that do
\* not open with the dog marker.
BlockOf(lines, i) ==
    LET stops == {j \in i + 1 .. Len(lines) :
                     IsSelectionLine(lines[j]) \/ IsSectionHeader(lines[j])}
        end   == IF stops = {} THEN Len(lines) + 1
                 ELSE CHOOSE j \in stops : \A h \in stops : j <= h
    IN  {i} \cup {j \in i + 1 .. end - 1 : ~StartsWithDog(lines[j])}

\* The lines of a set of positions, in the order of the text.
RECURSIVE InOrder(_, _, _)
InOrder(lines, ps, i) ==
    IF i > Len(lines) THEN <<>>
    ELSE (IF i \in ps THEN <<lines[i]>> ELSE <<>>) \o InOrder(lines, ps, i + 1)

\* The key recovered from the block that opens at position i.
KeyAt(lines, i) == RaceKey(InOrder(lines, BlockOf(lines, i), 1))

\* Block i is in the result whole, or not at all.
BlockKept(lines, kept, i)    == BlockOf(lines, i) \subseteq kept
BlockDropped(lines, kept, i) == BlockOf(lines, i) \cap kept = {}

\* The track and race number written in the block that opens at position i.
WrittenKeyAt(lines, i) ==
    LET key == KeyAt(lines, i) IN
    IF key = NoKey THEN NoKey ELSE <<key[1], key[3]>>

\* C11: of the selection blocks that name the same track and race number the
\* result holds exactly the first one, whole, and none of the later ones;
\* blocks that name pairwise distinct races are all in the result.
OnePerTrackAndRace ==
    stage = "filtered" =>
        LET kept == Range(FilterPositions(arg)) IN
        \A i \in SelectionsOf(arg) :
            WrittenKeyAt(arg, i) # NoKey =>
              IF \E j \in SelectionsOf(arg) :
                     j < i /\ WrittenKeyAt(arg, j) = WrittenKeyAt(arg, i)
                THEN BlockDropped(arg, kept, i)
                ELSE BlockKept(arg, kept, i)

\* C12: the filter applied to its own result returns that result.
FilterIdempotent ==
    stage = "refiltered" => res[2] = res[1]

\* C13: a selection block from which no key is recovered is in the result
\* whole, wherever it stands and whatever keys were seen before it.
KeylessBlockKept ==
    stage = "filtered" =>
        LET kept == Range(FilterPositions(arg)) IN
        /\ res[1] = Pick(arg, FilterPositions(arg))
        /\ \A i \in SelectionsOf(arg) :
             KeyAt(arg, i) = NoKey => BlockKept(arg, kept, i)

\* A keyless block closes a text in which a keyed block was dropped as a
\* duplicate.
KeylessBlockKeptWitness ==
    /\ stage = "filtered"
    /\ Len(arg) = MaxLines
    /\ IsSelectionLine(arg[MaxLines - 1])
    /\ KeyAt(arg, MaxLines - 1) = NoKey
    /\ res[1][Len(res[1])] = arg[MaxLines]
    /\ Len(res[1]) = MaxLines - 1

\* The selection at position i repeats the key of an earlier selection.
DuplicateAt(lines, i) ==
    /\ KeyAt(lines, i) # NoKey
    /\ \E j \in SelectionsOf(lines) : j < i /\ KeyAt(lines, j) = KeyAt(lines, i)

\* C27: the result is the text without its dropped duplicate blocks: the
\* lines of the result stand in the order of the text, and every line of the
\* text that is not in the result belongs to a selection block that repeats
\* an earlier key and is dropped whole.
FilterOnlyRemovesDuplicates ==
    stage = "filtered" =>
        LET ps   == FilterPositions(arg)
            kept == Range(ps)
        IN  /\ res[1] = Pick(arg, ps)
            /\ \A k \in 1 .. Len(ps) - 1 : ps[k] < ps[k + 1]
            /\ \A p \in (1 .. Len(arg)) \ kept :
                 \E i \in SelectionsOf(arg) :
                    /\ p \in BlockOf(arg, i)
                    /\ DuplicateAt(arg, i)
                    /\ BlockDropped(arg, kept, i)

-----------------------------------------------------------------------------
(* Properties of validate_and_fix_selections *)

\* The tier header that stands last before position i (0: none).
LastHeaderBefore(lines, i) ==
    LET hs == {j \in 1 .. i - 1 : \E t \in Tiers : IsTierHeader(lines[j], t)} IN
    IF hs = {} THEN 0 ELSE CHOOSE j \in hs : \A h \in hs : h <= j

\* Where line i of the text stands in the result.
PlaceOf(lines, out, i) ==
    LET idx == PremiumHeaderIdx(lines) IN
    IF Len(out) = Len(lines) + 3 /\ i > idx THEN i + 3 ELSE i

\* C14: every stake line that follows a tier header is written as the
\* canonical line of the tier named last before it, 1.5 Units Win, 1.0 Units
\* Win or 0.5 Units Each-Way, whatever it stated; a stake line that no tier
\* header precedes is written as it was.
StakeLinesNormalized ==
    stage = "validated" =>
        /\ Len(res[1]) \in {Len(arg), Len(arg) + 3}
        /\ \A i \in 1 .. Len(arg) :
             IsStakeLine(arg[i]) =>
               LET h   == LastHeaderBefore(arg, i)
                   out == res[1][PlaceOf(arg, res[1], i)]
               IN  IF h = 0 THEN out = arg[i]
                   ELSE out = CanonLine(arg[h].tier)

\* A stake of 2.0 units before any header is left alone; the same stake
\* under the speculative header, itself under a premium header without
\* selections, is written as the speculative line.
StakeLinesNormalizedWitness ==
    /\ stage = "validated"
    /\ arg = <<StakeLine(20), HeaderLine("premium"), HeaderLine("speculative"), StakeLine(20)>>
    /\ res[1][1] = StakeLine(20)
    /\ res[1][Len(res[1])] = CanonLine("speculative")
    /\ Len(res[1]) = Len(arg) + 3

-----------------------------------------------------------------------------
(* Properties of the notifier *)

\* send_webhook_message was called on the text, has returned, and none of
\* its sends raised.
WebhookDelivered ==
    /\ stage = "returned"
    /\ arg.fn = "webhook"
    /\ \A k \in 1 .. Len(res) : res[k].ok

\* The bodies, joined in the order of their sends, are the text: the first
\* opens at offset 0, each opens where the one before it closed, the last
\* closes at the end of the text.
BodiesAreTheText(log, total) ==
    /\ Len(log) > 0
    /\ log[1].from = 0
    /\ \A k \in 1 .. Len(log) - 1 : log[k + 1].from = log[k].to
    /\ log[Len(log)].to = total

\* ceil(L / M)
CeilDiv(L, M) == (L + M - 1) \div M

\* C15 as stated: a text of L characters is delivered in exactly
\* ceil(L / 4096) messages whose bodies joined in order are the text.
ChunksAreCeil ==
    WebhookDelivered =>
        /\ Len(res) = CeilDiv(ContentLen(arg.lines), EmbedMax)
        /\ BodiesAreTheText(res, ContentLen(arg.lines))

\* C15: a text of L >= 1 characters is delivered in exactly ceil(L / 4096)
\* messages, the empty text in one message with an empty body; the bodies
\* joined in order are the text.
ChunksAreCeilOrOne ==
    WebhookDelivered =>
        /\ Len(res) = IF ContentLen(arg.lines) = 0 THEN 1
                      ELSE CeilDiv(ContentLen(arg.lines), EmbedMax)
        /\ BodiesAreTheText(res, ContentLen(arg.lines))

\* A text of more than 8192 characters was delivered in three messages, the
\* last one shorter than the two before it.
ChunksAreCeilOrOneWitness ==
    /\ WebhookDelivered
    /\ ContentLen(arg.lines) > 2 * EmbedMax
    /\ Len(res) = 3
    /\ res[3].to - res[3].from < EmbedMax

\* The piece <<from, to>> lies in the bodies of the sends of log that
\* returned: its first character, and the character at every offset inside
\* it where a body closes, are in some body.
InBodies(log, piece) ==
    LET oks    == {k \in 1 .. Len(log) : log[k].ok}
        In(x)  == \E k \in oks : log[k].from <= x /\ x < log[k].to
        breaks == {piece[1]} \cup
                  {log[k].to : k \in {h \in oks : piece[1] <= log[h].to /\ log[h].to < piece[2]}}
    IN  \A x \in breaks : In(x)

\* C16: when a delivery has returned and no send raised, every line of the
\* report that is not blank was delivered whole, in either delivery mode,
\* however long its header, tip or disclaimer section is.
OverflowContinued ==
    (stage = "returned" /\ \A k \in 1 .. Len(res) : res[k].ok) =>
        \A i \in 1 .. Len(arg.lines) :
            arg.lines[i].cls # "blank" =>
                InBodies(res, <<LineStart(arg.lines, i),
                                LineStart(arg.lines, i) + arg.lines[i].len>>)

\* C17: a send that raised is the last send attempted for the report, and no
\* two sends that returned carry the same part of the report.
NoSendAfterFailedSend ==
    /\ \A k \in 1 .. Len(res) - 1 : res[k].ok
    /\ \A j, k \in 1 .. Len(res) :
         (j < k /\ res[j].ok /\ res[k].ok /\ res[j].from < res[j].to) =>
             (res[j].to <= res[k].from \/ res[k].to <= res[j].from)

-----------------------------------------------------------------------------
(* Properties of the dates *)

\* C19: without an override, the date the callers of get_effective_date
\* render with '%Y-%m-%d' is the civil date of Sydney at the instant of the
\* call, in every hour of that date.
EffectiveDateIsSydneyDate ==
    (stage # "start" /\ arg.override.kind = "unset") =>
        IsoDate(res[1]) = LocalTime(arg.utc, "Australia/Sydney", arg.dst).date

\* C20: the date written into the prompt and sent as DATE_AU is the date
\* get_effective_date returned to generate_greyhound_tips in the same run.
PromptDateIsEffectiveDate ==
    stage = "prompted" =>
        /\ res[2].au_iso = IsoDate(res[1])
        /\ res[2].date_au = IsoDate(res[1])

-----------------------------------------------------------------------------
(* Properties of the daily predictions file *)

\* C21: a record written by generate_greyhound_tips and read by
\* load_daily_predictions on the same civil date of Sydney comes back
\* unchanged; read on a later civil date, the default record of that date
\* comes back instead (the write and the read met no error of the file
\* system).
RecordRoundTrip ==
    (stage = "loaded" /\ res[2] # None /\ ~res[5]) =>
        LET written == res[2][1]
            read    == res[3][1]
            at      == res[4][1]
        IN  IF LocalTime(at, "Australia/Sydney", arg.dst).date
                 = LocalTime(arg.utc, "Australia/Sydney", arg.dst).date
              THEN read = written
              ELSE read = DefaultPredictionsForToday(at, arg.dst)

-----------------------------------------------------------------------------
(* Properties of the passes of analyze_greyhound_racing_day *)

\* C22: an answer that holds a line of the template (with 'XX:XX') is
\* discarded: the text returned is a canned report and holds no such line.
PlaceholderNeverReturned ==
    (stage = "returned" /\ \E k \in 1 .. Len(arg) : arg[k] = FakeLine) =>
        /\ res[1].returned = NoDataReport
        /\ \A k \in 1 .. Len(res[1].returned) : res[1].returned[k] # FakeLine

\* C23: the text returned for an answer ends with the disclaimer on odds and
\* responsible gambling, whatever the passes did to the answer.
EndsWithOddsDisclaimer ==
    stage = "returned" =>
        res[1].returned[Len(res[1].returned)] = OddsDisclaimer

-----------------------------------------------------------------------------
(* Properties of the research mode *)

\* C24: in research mode nothing is sent to a webhook: no embed to the main
\* webhook and no operator notification to the fallback webhook, however
\* the analysis ends.
ResearchSendsNothing ==
    /\ winSent = {}
    /\ notifs = 0

-----------------------------------------------------------------------------
(* Properties of one call of analyze_greyhound_racing_day *)

\* The augmented call failed: it raised, returned nothing, or returned a
\* text of stripped length at most 100.
AugmentedFailed(x) ==
    \/ "ret" \notin DOMAIN x
    \/ x.ret = None
    \/ TextLen(x.ret[1]) = 0
    \/ StripLen(x.ret[1]) <= 100

\* C25: when the function has returned, its first completion call was the
\* augmented one and it was the only augmented one; a plain call, if there
\* is one, is the second and last call, and the augmented call had failed.
AugmentedFirstThenPlainOnce ==
    /\ Len(res.log) <= 2
    /\ \A k \in 1 .. Len(res.log) : (res.log[k].path = "augmented") <=> (k = 1)
    /\ stage = "returned" => Len(res.log) >= 1
    /\ Len(res.log) = 2 =>
         /\ res.log[2].path = "plain"
         /\ AugmentedFailed(res.log[1].answer)

\* The augmented call answered a text of 100 characters, the plain call was
\* made and the function has returned.
AugmentedFirstThenPlainOnceWitness ==
    /\ stage = "returned"
    /\ Len(res.log) = 2
    /\ res.log[1].answer.ret # None
    /\ StripLen(res.log[1].answer.ret[1]) = MinResultLen
    /\ res.log[2].path = "plain"

-----------------------------------------------------------------------------
(* Properties of the filter followed by the validation *)

\* The tier named by the tier header that stands last before position i.
TierAt(lines, i) ==
    LET h == LastHeaderBefore(lines, i) IN IF h = 0 THEN NoSection ELSE lines[h].tier

\* The position, in the filtered text, of line p of the answer.
FilteredPlace(lines, p) ==
    LET ps == FilterPositions(lines) IN CHOOSE k \in 1 .. Len(ps) : ps[k] = p

\* C28: after the filter and the validation every kept selection block stands
\* under the tier header it stood under in the answer, its stake line is the
\* canonical line of that tier, and the no-premium line is inserted only when
\* the premium section of the answer held no selection.
TierPreserved ==
    stage = "returned" =>
        LET filtered  == res[1].filtered
            validated == res[1].validated
            kept      == Range(FilterPositions(arg))
        IN  /\ \A i \in SelectionsOf(arg) \cap kept :
                 /\ TierAt(filtered, FilteredPlace(arg, i)) = TierAt(arg, i)
                 /\ \A p \in BlockOf(arg, i) \cap kept :
                      (IsStakeLine(arg[p]) /\ TierAt(arg, i) # NoSection) =>
                        validated[PlaceOf(filtered, validated, FilteredPlace(arg, p))]
                          = CanonLine(TierAt(arg, i))
            /\ Len(validated) = Len(filtered) + 3 =>
                 ~ \E i \in SelectionsOf(arg) : TierAt(arg, i) = "premium"

-----------------------------------------------------------------------------
(* Properties of the title and the mention of the per-selection delivery *)

\* send_tips_as_separate_messages returned after every send succeeded.
TipsAllDelivered ==
    /\ stage = "returned"
    /\ arg.fn = "tips"
    /\ res # <<>>
    /\ \A k \in 1 .. Len(res) : res[k].fn = "tips" /\ res[k].ok

\* C29: when send_tips_as_separate_messages delivers at least one message and
\* every send succeeds, the first delivered message carries the title and
\* the role mention and no later message carries either.
TitleAndMentionOnFirstOnly ==
    TipsAllDelivered =>
        LET plan == TipsPlan(arg.lines) IN
        /\ Len(plan) = Len(res)
        /\ plan[1].title /\ plan[1].mention
        /\ \A k \in 2 .. Len(plan) : ~plan[k].title /\ ~plan[k].mention

-----------------------------------------------------------------------------
(* Properties of the scheduler under restarts *)

\* Tips of a fire were delivered in the running trigger window.
TipsDelivered == \E e \in winSent : e.kind # "schederr"

\* C30: once tips of a fire were delivered in a trigger window, no fire
\* starts again in that window, whether or not the process was restarted in
\* between.
NoSecondFireAfterDelivery ==
    [][ winFires' > winFires => ~TipsDelivered ]_vars

====
